---- MODULE Spec2Model ----
(***************************************************************************)
(* The Jenkins API client (jenkinsClient.js): one shared session object,   *)
(* the transport primitive makeRequest, the version resolver and the       *)
(* client operations, run as concurrent asynchronous calls that interleave *)
(* at their awaits.                                                        *)
(***************************************************************************)
EXTENDS Naturals, Integers, Sequences, FiniteSets, Bags, TLC

\* ------------------------------------------------------------------ bounds
\* Number of client calls that may be in flight at the same time.
MaxCalls == 2

\* ------------------------------------------------------- JavaScript values
\* Every JavaScript value is a tagged record; a string is a sequence of
\* text pieces (its concatenation is the string), "" is the empty sequence.
JNull == [t |-> "null"]
JUndef == [t |-> "undefined"]
JTrue == [t |-> "bool", b |-> TRUE]
JFalse == [t |-> "bool", b |-> FALSE]
JStr(s) == [t |-> "str", s |-> s]
JNum(n) == [t |-> "num", n |-> n]
JList(l) == [t |-> "list", l |-> l]
\* An object is its own keys in insertion order, each with a value.
JObj(kv) == [t |-> "obj", kv |-> kv]

\* JavaScript truthiness (the values of !x, x || y, if (x)).
Truthy(v) ==
    CASE v.t = "null" -> FALSE
      [] v.t = "undefined" -> FALSE
      [] v.t = "bool" -> v.b
      [] v.t = "str" -> v.s # <<>>
      [] v.t = "num" -> v.n # 0
      [] OTHER -> TRUE

\* x || y
OrElse(x, y) == IF Truthy(x) THEN x ELSE y

\* Reading a property of null or undefined throws a TypeError.
CanRead(v) == v.t \notin {"null", "undefined"}

\* obj[key] for a value whose properties can be read: the value stored
\* under the key of an object, undefined for a missing key or a primitive.
Prop(v, key) ==
    IF v.t = "obj" /\ \E i \in DOMAIN v.kv : v.kv[i][1] = key
    THEN v.kv[CHOOSE i \in DOMAIN v.kv : v.kv[i][1] = key][2]
    ELSE JUndef

\* The message of the TypeError thrown by reading `key` of null/undefined.
TypeErrorMessage(v, key) ==
    <<"Cannot read properties of ", v.t, " (reading '", key, "')">>

\* The text of a value inside a template literal `${v}`.
Text(v) ==
    CASE v.t = "str" -> v.s
      [] v.t = "null" -> <<"null">>
      [] v.t = "undefined" -> <<"undefined">>
      [] v.t = "bool" -> IF v.b THEN <<"true">> ELSE <<"false">>
      [] OTHER -> <<"[object]">>

\* A returned array [a, b] and its two components.
Pair(a, b) == JList(<<a, b>>)

Fst(p) == p.l[1]

Snd(p) == p.l[2]

\* How a piece of code ends: by returning a value or by throwing.
\* `clear` tells that disconnect() was called on the way.
Return(v) == [how |-> "return", v |-> v, clear |-> FALSE]

Throw(msg) == [how |-> "throw", v |-> JStr(msg), clear |-> FALSE]

ReturnAfterDisconnect(v) == [how |-> "return", v |-> v, clear |-> TRUE]

\* ------------------------------------------------------------ input domains
\* The arguments of connect: a non-empty base URL, with or without the
\* trailing slash, a user name and a password (the route refuses a
\* missing or empty one).
ConnectInputs ==
    {[url |-> <<"http://jenkins-a">>, username |-> "alice", password |-> "pw-a"],
     [url |-> <<"http://jenkins-b", "/">>, username |-> "bob", password |-> "pw-b"]}

JobNames == {"build-app"}

ConfigXmls == {"<flow-definition/>"}

\* View names as sequences of characters; NoView is the omitted argument.
NoView == JNull

ViewNames == {NoView, JStr(<<"A", "l", "l">>), JStr(<<"q", "a">>)}

\* More view names: empty, blank, the sentinel and its near misses, and
\* names with characters that a URL reserves.
SeqViewNames ==
    ViewNames \cup
    {JStr(<<>>), JStr(<<" ">>), JStr(<<" ", "\t", " ">>),
     JStr(<<"a", "l", "l">>), JStr(<<" ", "A", "l", "l">>),
     JStr(<<"q", "a", "-", "v", "i", "e", "w">>), JStr(<<"q", " ", "a">>),
     JStr(<<"a", "/", "b">>), JStr(<<"5", "0", "%">>),
     JStr(<<"a", "&", "b", "=", "c">>), JStr(<<"w", "h", "y", "?", "#">>)}

\* Response headers: the header names in the order of Object.keys, each
\* with its value given as the pieces between its "/" characters.
NoHeaders == <<>>

HeaderSets == {NoHeaders, <<<<"X-Jenkins", <<"2.401.3">>>>>>}

\* More response headers, for the version resolver.
XJenkins == <<<<"X-Jenkins", <<"2.401.3">>>>>>

XJenkinsVersion == <<<<"x-jenkins-version", <<"2.401">>>>>>

JenkinsVersion == <<<<"Jenkins-Version", <<"2.400">>>>>>

ServerJetty == <<<<"Server", <<"Jetty(9)">>>>>>

ServerUpperCase == <<<<"SERVER", <<"Jetty", "9">>>>>>

ServerJenkins == <<<<"server", <<"Jenkins", "2.401.3">>>>>>

ServerJenkinsBeta == <<<<"server", <<"Jenkins", "2.401.3", "beta">>>>>>

ServerJenkinsSlash == <<<<"server", <<"Jenkins", "">>>>>>

ServerDigitJenkins == <<<<"server", <<"2Jenkins">>>>>>

ServerJenkinsOnly == <<<<"server", <<"Jenkins">>>>>>

ServerThenXJenkins == <<<<"Server", <<"Jetty(9)">>>>, <<"X-Jenkins", <<"2.401.3">>>>>>

BothVersionHeaders ==
    <<<<"Jenkins-Version", <<"2.400">>>>, <<"X-Jenkins-Version", <<"2.401">>>>>>

XJenkinsPath == <<<<"X-Jenkins", <<"Jenkins-ci", "2.401">>>>>>

XJenkinsWord == <<<<"X-Jenkins", <<"Jenkins">>>>>>

XJenkinsEmpty == <<<<"X-Jenkins", <<"">>>>, <<"Server", <<"Jetty(9)">>>>>>

ContentTypeOnly == <<<<"Content-Type", <<"application", "json">>>>>>

SeqHeaderSets ==
    {NoHeaders, XJenkins, XJenkinsVersion, JenkinsVersion, ServerJetty, ServerUpperCase,
     ServerJenkins, ServerJenkinsBeta, ServerJenkinsSlash, ServerDigitJenkins,
     ServerJenkinsOnly, ServerThenXJenkins, BothVersionHeaders, XJenkinsPath,
     XJenkinsWord, XJenkinsEmpty, ContentTypeOnly}

\* Response bodies as parsed by the HTTP library: JSON null and a full
\* document.
FullBody ==
    JObj(<< <<"version", JStr(<<"2.400">>)>>,
            <<"nodeName", JStr(<<"built-in">>)>>,
            <<"fullName", JStr(<<"Ada">>)>>,
            <<"id", JStr(<<"ada">>)>>,
            <<"jobs", JList(<<JStr(<<"build-app">>)>>)>>,
            <<"plugins", JList(<<JStr(<<"git">>), JStr(<<"ssh">>)>>)>> >>)

Bodies == {JNull, FullBody}

\* Documents without a version and with an empty one.
NoVersionBody ==
    JObj(<< <<"nodeName", JStr(<<"built-in">>)>>, <<"fullName", JStr(<<"Ada">>)>> >>)

EmptyVersionBody ==
    JObj(<< <<"version", JStr(<<>>)>>, <<"nodeName", JStr(<<"built-in">>)>> >>)

\* Documents with n top-level keys, in this order, whose values are
\* strings of 100, 101 and 250 characters (one piece per character), a
\* number, null, an array, an object, a boolean and short strings.
DebugKeys == <<"a", "b", "c", "d", "e", "f", "g", "h", "i", "j", "k", "l", "m", "n", "o">>

DebugValue(i) ==
    CASE i = 1 -> JStr([c \in 1..100 |-> "x"])
      [] i = 2 -> JStr([c \in 1..101 |-> "x"])
      [] i = 3 -> JStr([c \in 1..250 |-> "x"])
      [] i = 4 -> JNum(7)
      [] i = 5 -> JNull
      [] i = 6 -> JList(<<JStr(<<"x">>), JStr(<<"y">>)>>)
      [] i = 7 -> JObj(<< <<"name", JStr(<<"n">>)>> >>)
      [] i = 8 -> JTrue
      [] OTHER -> JStr(<<"v">>)

DebugBody(n) == JObj([i \in 1..n |-> <<DebugKeys[i], DebugValue(i)>>])

DebugSizes == {0, 1, 2, 3, 9, 10, 11, 15}

\* What the HTTP library does with one request: it resolves with the
\* response (a 2xx status), or rejects with an error that carries the
\* response (any other status) or only a transport error code.
OkResponses ==
    {[ok |-> TRUE, data |-> d, headers |-> h, hasResponse |-> TRUE,
      status |-> 200, code |-> "", message |-> <<>>] :
        d \in Bodies, h \in HeaderSets}

StatusErrors ==
    {[ok |-> FALSE, data |-> JNull, headers |-> NoHeaders, hasResponse |-> TRUE,
      status |-> st[1], code |-> "ERR_BAD_REQUEST",
      message |-> <<"Request failed with status code ", st[2]>>] :
        st \in {<<401, "401">>, <<403, "403">>}}

\* The errors of the HTTP library, class by class: those that carry a
\* response, with the code the library gives them (and, since the catch
\* block reads error.response before error.code, with a transport code as
\* well), and those that carry only a code.
FailureStatuses == {401, 403, 404, 500, 502}

FailureCodes == {"ECONNREFUSED", "ENOTFOUND", "ETIMEDOUT", "ECONNABORTED", "ERR_NETWORK"}

FailureMessage(code) ==
    CASE code = "ECONNREFUSED" -> <<"connect ECONNREFUSED">>
      [] code = "ENOTFOUND" -> <<"getaddrinfo ENOTFOUND">>
      [] code = "ETIMEDOUT" -> <<"connect ETIMEDOUT">>
      [] code = "ECONNABORTED" -> <<"timeout of 10000ms exceeded">>
      [] OTHER -> <<"Network Error">>

Failures ==
    {[ok |-> FALSE, data |-> JNull, headers |-> NoHeaders, hasResponse |-> TRUE,
      status |-> st, code |-> c,
      message |-> <<"Request failed with status code ", ToString(st)>>] :
        st \in FailureStatuses,
        c \in {"ERR_BAD_REQUEST", "ERR_BAD_RESPONSE", "ECONNREFUSED", "ETIMEDOUT"}}
    \cup
    {[ok |-> FALSE, data |-> JNull, headers |-> NoHeaders, hasResponse |-> FALSE,
      status |-> 0, code |-> c, message |-> FailureMessage(c)] :
        c \in FailureCodes}

TransportErrors ==
    {[ok |-> FALSE, data |-> JNull, headers |-> NoHeaders, hasResponse |-> FALSE,
      status |-> 0, code |-> c[1], message |-> <<c[2]>>] :
        c \in {<<"ECONNREFUSED", "connect ECONNREFUSED">>}}

Responses == OkResponses \cup StatusErrors \cup TransportErrors

\* A 2xx answer with the given headers and body.
Ok(h, d) ==
    [ok |-> TRUE, data |-> d, headers |-> h, hasResponse |-> TRUE,
     status |-> 200, code |-> "", message |-> <<>>]

\* Answers to /api/json with and without a version in the headers and in
\* the body.
VersionResponses ==
    {Ok(h, d) : h \in {NoHeaders, XJenkins, ServerJenkinsSlash, ServerJenkinsOnly},
                d \in {FullBody, NoVersionBody, EmptyVersionBody}}

\* Answers to /me/api/json with and without a full name.
UserResponses == {Ok(NoHeaders, NoVersionBody), Ok(NoHeaders, EmptyVersionBody)}

\* ------------------------------------------------------------------- state
VARIABLES
    session,      \* this.session: null or true
    baseUrl,      \* this.baseUrl: null or the url given to connect
    authHeader,   \* this.authHeader: null or the Authorization header object
    calls,        \* the bag of client calls in flight, each suspended at an await
    last,         \* what the step just taken returned to its caller, if anything
    sent,         \* the request the step just taken handed to the HTTP library, if any
    reply         \* the response a route of the server has just sent, if any

vars == <<session, baseUrl, authHeader, calls, last, sent, reply>>

sessionVars == <<session, baseUrl, authHeader>>

\* A request handed to the HTTP library.
NoRequest == [method |-> "none", url |-> <<>>, headers |-> JNull, body |-> JUndef]

\* The arguments of a call that takes none worth keeping.
NoArgs == JUndef

\* A call suspended at the await `pc` of operation `op`; `reqs` counts the
\* requests it has sent, `conn` is isConnected() at the time of the call,
\* `args` are the arguments of a connect, the other fields are its local
\* variables.
InFlight(op, pc, conn) ==
    [op |-> op, pc |-> pc, reqs |-> 1, conn |-> conn, args |-> NoArgs,
     data |-> JUndef, headers |-> NoHeaders, userInfo |-> JUndef, userId |-> JUndef]

NoCall ==
    [op |-> "none", how |-> "return", ret |-> JUndef, reqs |-> 0, conn |-> FALSE,
     args |-> NoArgs]

\* A response of the server: its status and its JSON body.
NoReply == [status |-> 0, body |-> JUndef]

Init ==
    /\ session = JNull
    /\ baseUrl = JNull
    /\ authHeader = JNull
    /\ calls = EmptyBag
    /\ last = NoCall
    /\ sent = NoRequest
    /\ reply = NoReply

\* ------------------------------------------------------------ the session
Base64(s) == <<"base64[">> \o s \o <<"]">>

CreateAuthHeader(username, password) ==
    JObj(<< <<"Authorization",
             JStr(<<"Basic ">> \o Base64(<<username, ":", password>>))>> >>)

IsConnectedComparesUndefined == session.t # "undefined" /\ baseUrl.t # "undefined"

\* isConnected(): this.session !== null && this.baseUrl !== null
IsConnected == session.t # "null" /\ baseUrl.t # "null"

ClearSessionKeepsBaseUrl ==
    /\ session' = JNull
    /\ authHeader' = JNull
    /\ UNCHANGED baseUrl

ClearSessionOnlyAuthHeader ==
    /\ authHeader' = JNull
    /\ UNCHANGED <<session, baseUrl>>

ClearSessionKeepsAuthHeader ==
    /\ session' = JNull
    /\ baseUrl' = JNull
    /\ UNCHANGED authHeader

\* The three assignments of disconnect().
ClearSession ==
    /\ session' = JNull
    /\ baseUrl' = JNull
    /\ authHeader' = JNull

\* ---------------------------------------------------- transport primitive
NotConnectedError == <<"Not connected to Jenkins server">>

\* The guard at the head of makeRequest, on given session fields.
Refuses(s, b) == ~Truthy(s) \/ ~Truthy(b)

MakeRequestRefuses == Refuses(session, baseUrl)

\* base.replace(/\/$/, '')
StripTrailingSlash(s) ==
    IF Len(s) > 0 /\ s[Len(s)] = "/" THEN SubSeq(s, 1, Len(s) - 1) ELSE s

\* The GET makeRequest hands to the HTTP library for an endpoint, built
\* from the session fields at the time of the call.
GetRequest(base, auth, endpoint) ==
    [method |-> "GET", url |-> StripTrailingSlash(base.s) \o endpoint,
     headers |-> auth, body |-> JUndef]

\* `${status}`
StatusText(st) == ToString(st)

ClassifyErrorCodeFirst(e) ==
    IF e.code = "ECONNREFUSED" \/ e.code = "ENOTFOUND"
    THEN <<"Connection failed - check server URL and network">>
    ELSE IF e.code = "ETIMEDOUT"
    THEN <<"Request timeout - Jenkins server may be slow">>
    ELSE IF e.hasResponse
    THEN CASE e.status = 401 -> <<"Authentication failed - check username/password">>
           [] e.status = 403 -> <<"Access denied - insufficient permissions">>
           [] e.status = 404 -> <<"Jenkins server not found or endpoint unavailable">>
           [] OTHER -> <<"HTTP ", StatusText(e.status), ": ">> \o e.message
    ELSE <<"Request error: ">> \o e.message

\* The message makeRequest's catch block gives an error of the HTTP library.
ClassifyError(e) ==
    IF e.hasResponse
    THEN CASE e.status = 401 -> <<"Authentication failed - check username/password">>
           [] e.status = 403 -> <<"Access denied - insufficient permissions">>
           [] e.status = 404 -> <<"Jenkins server not found or endpoint unavailable">>
           [] OTHER -> <<"HTTP ", StatusText(e.status), ": ">> \o e.message
    ELSE IF e.code = "ECONNREFUSED" \/ e.code = "ENOTFOUND"
    THEN <<"Connection failed - check server URL and network">>
    ELSE IF e.code = "ETIMEDOUT"
    THEN <<"Request timeout - Jenkins server may be slow">>
    ELSE <<"Request error: ">> \o e.message

RefusedResultSaysConnectionFailed ==
    [data |-> JNull, error |-> JStr(<<"Connection failed - check server URL and network">>),
     headers |-> NoHeaders]

\* What makeRequest returns when it refuses: [null, error, {}].
RefusedResult == [data |-> JNull, error |-> JStr(NotConnectedError), headers |-> NoHeaders]

\* What makeRequest returns once the HTTP library has settled the request.
MakeRequestResult(resp) ==
    IF resp.ok
    THEN [data |-> resp.data, error |-> JNull, headers |-> resp.headers]
    ELSE [data |-> JNull, error |-> JStr(ClassifyError(resp)),
          headers |-> IF resp.hasResponse THEN resp.headers ELSE NoHeaders]

\* --------------------------------------------------------- version resolver
versionHeadersServerFirst ==
    <<"server", "x-jenkins", "x-jenkins-version", "jenkins-version">>

versionHeaders == <<"x-jenkins", "x-jenkins-version", "jenkins-version", "server">>

ToLowerCase(name) ==
    CASE name = "X-Jenkins" -> "x-jenkins"
      [] name = "X-Jenkins-Version" -> "x-jenkins-version"
      [] name = "Jenkins-Version" -> "jenkins-version"
      [] name = "Server" -> "server"
      [] name = "SERVER" -> "server"
      [] name = "Content-Type" -> "content-type"
      [] OTHER -> name

\* piece.includes('Jenkins') and /^\d/.test(piece) for the pieces in use.
IncludesJenkins(piece) == piece \in {"Jenkins", "Jenkins-ci", "2Jenkins", "Jetty-Jenkins"}

StartsWithDigit(piece) == piece \in {"2.401.3", "2.401", "2.400", "9", "2Jenkins"}

\* The pieces of a header value joined by "/", as one string.
RECURSIVE JoinSlash(_)
JoinSlash(parts) ==
    IF Len(parts) = 0 THEN <<>>
    ELSE IF Len(parts) = 1 THEN (IF parts[1] = "" THEN <<>> ELSE <<parts[1]>>)
    ELSE (IF parts[1] = "" THEN <<"/">> ELSE <<parts[1], "/">>) \o JoinSlash(Tail(parts))

HeaderString(parts) == JStr(JoinSlash(parts))

PieceString(piece) == JStr(IF piece = "" THEN <<>> ELSE <<piece>>)

\* Object.keys(headers).find(key => key.toLowerCase() === header.toLowerCase()):
\* the position of the first such key, 0 when there is none.
FindHeaderKey(headers, header) ==
    LET hits == {i \in DOMAIN headers : ToLowerCase(headers[i][1]) = ToLowerCase(header)}
    IN IF hits = {} THEN 0 ELSE CHOOSE i \in hits : \A j \in hits : i <= j

\* The body of the loop for one header that is present with a non-empty
\* value: what it returns, or nothing (the loop goes on).
VersionOfHeader(header, parts) ==
    IF (\E i \in DOMAIN parts : IncludesJenkins(parts[i])) /\ Len(parts) > 1
    THEN [returns |-> TRUE, v |-> PieceString(parts[Len(parts)])]
    ELSE IF ToLowerCase(header) = "server" /\ \E i \in DOMAIN parts : IncludesJenkins(parts[i])
    THEN LET digits == {i \in DOMAIN parts : parts[i] # "" /\ StartsWithDigit(parts[i])}
         IN IF digits = {} THEN [returns |-> FALSE, v |-> JNull]
            ELSE [returns |-> TRUE,
                  v |-> PieceString(parts[CHOOSE i \in digits : \A j \in digits : i <= j])]
    ELSE [returns |-> TRUE, v |-> HeaderString(parts)]

RECURSIVE VersionFrom(_, _)
VersionFrom(headers, n) ==
    IF n > Len(versionHeaders) THEN JNull
    ELSE LET k == FindHeaderKey(headers, versionHeaders[n])
         IN IF k # 0 /\ Truthy(HeaderString(headers[k][2]))
            THEN LET o == VersionOfHeader(versionHeaders[n], headers[k][2])
                 IN IF o.returns THEN o.v ELSE VersionFrom(headers, n + 1)
            ELSE VersionFrom(headers, n + 1)

GetVersionFromHeaders(headers) == VersionFrom(headers, 1)

ResolveVersionBodyFirst(data, headers) ==
    IF ~CanRead(data) THEN Throw(TypeErrorMessage(data, "version"))
    ELSE Return(OrElse(Prop(data, "version"),
                       OrElse(GetVersionFromHeaders(headers), JStr(<<"Unknown">>))))

\* version = getVersionFromHeaders(headers); if (!version) version =
\* data.version || 'Unknown': the version, or the TypeError of reading
\* the version of a null body.
ResolveVersion(data, headers) ==
    LET v == GetVersionFromHeaders(headers)
    IN IF Truthy(v) THEN Return(v)
       ELSE IF ~CanRead(data) THEN Throw(TypeErrorMessage(data, "version"))
       ELSE Return(OrElse(Prop(data, "version"), JStr(<<"Unknown">>)))

\* ------------------------------------------------------------- endpoints
RootInfo == <<"/api/json">>

CurrentUser == <<"/me/api/json">>

PluginManager == <<"/pluginManager/api/json?depth=1">>

\* ------------------------------------------------------ calls in flight
\* A further call may start.
Free == BagCardinality(calls) < MaxCalls

\* The call k is in flight, suspended at the await `pc` of `op`.
At(k, op, pc) == BagIn(k, calls) /\ k.op = op /\ k.pc = pc

\* A call sends the request req and suspends at its first await.
Start(k, req) ==
    /\ calls' = calls (+) SetToBag({k})
    /\ sent' = req
    /\ last' = NoCall

\* The call k resumes, sends the request req and suspends again, as k2.
Move(k, k2, req) ==
    /\ calls' = (calls (-) SetToBag({k})) (+) SetToBag({k2})
    /\ sent' = req
    /\ last' = NoCall

\* The call k resumes and ends with outcome o; disconnect() on the way
\* clears the session.
Complete(k, o) ==
    /\ calls' = calls (-) SetToBag({k})
    /\ last' = [op |-> k.op, how |-> o.how, ret |-> o.v, reqs |-> k.reqs, conn |-> k.conn,
                args |-> k.args]
    /\ sent' = NoRequest
    /\ IF o.clear THEN ClearSession ELSE UNCHANGED sessionVars

\* A call of `op` ends with outcome o without having sent a request.
CompleteAtCall(op, o) ==
    /\ last' = [op |-> op, how |-> o.how, ret |-> o.v, reqs |-> 0, conn |-> IsConnected,
                args |-> NoArgs]
    /\ sent' = NoRequest
    /\ UNCHANGED calls
    /\ IF o.clear THEN ClearSession ELSE UNCHANGED sessionVars

\* -------------------------------------------------------------- makeRequest
\* What makeRequest returns: [data, error, headers] with returnHeaders,
\* [data, error] without.
MakeRequestReturn(r, returnHeaders) ==
    IF returnHeaders
    THEN JList(<<r.data, r.error, [t |-> "headers", h |-> r.headers]>>)
    ELSE Pair(r.data, r.error)

\* makeRequest(endpoint, returnHeaders) called on its own, up to its await.
MakeRequestCall(endpoint, returnHeaders) ==
    /\ Free
    /\ IF MakeRequestRefuses
       THEN CompleteAtCall("makeRequest",
                           Return(MakeRequestReturn(RefusedResult, returnHeaders)))
       ELSE /\ Start(InFlight("makeRequest",
                              IF returnHeaders THEN "withHeaders" ELSE "plain",
                              IsConnected),
                     GetRequest(baseUrl, authHeader, endpoint))
            /\ UNCHANGED sessionVars

\* The HTTP library settles the request of a makeRequest called on its own.
MakeRequestDone(k, resp) ==
    /\ BagIn(k, calls)
    /\ k.op = "makeRequest"
    /\ Complete(k, Return(MakeRequestReturn(MakeRequestResult(resp),
                                            k.pc = "withHeaders")))

\* ---------------------------------------------------------------- connect
\* The try block of connect once the probe has settled with result r.
ConnectTry(r) ==
    IF Truthy(r.error)
    THEN ReturnAfterDisconnect(
             Pair(JFalse, JStr(<<"Connection failed: ">> \o Text(r.error))))
    ELSE LET version == ResolveVersion(r.data, r.headers)
         IN IF version.how = "throw" THEN version
            ELSE Return(Pair(JTrue,
                     JStr(<<"Connected successfully to Jenkins v">> \o Text(version.v))))

ConnectKeepsSessionOnFailure(r) ==
    LET o == ConnectTry(r)
    IN IF o.how = "throw"
       THEN Return(Pair(JFalse, JStr(<<"Connection Error: ">> \o Text(o.v))))
       ELSE Return(o.v)

\* connect's try block with its catch block.
ConnectOutcome(r) ==
    LET o == ConnectTry(r)
    IN IF o.how = "throw"
       THEN ReturnAfterDisconnect(
                Pair(JFalse, JStr(<<"Connection Error: ">> \o Text(o.v))))
       ELSE o

ConnectCallMarksAfterProbe(url, username, password) ==
    /\ Free
    /\ UNCHANGED sessionVars
    /\ Start([InFlight("connect", "probe", IsConnected)
                 EXCEPT !.args = [url |-> url, username |-> username,
                                  password |-> password]],
             GetRequest(JStr(url), CreateAuthHeader(username, password), RootInfo))

ConnectCallKeepsOldCredentials(url, username, password) ==
    /\ Free
    /\ authHeader' = IF authHeader = JNull THEN CreateAuthHeader(username, password)
                     ELSE authHeader
    /\ baseUrl' = JStr(url)
    /\ session' = JTrue
    /\ Start([InFlight("connect", "probe", IsConnected)
                 EXCEPT !.args = [url |-> url, username |-> username,
                                  password |-> password]],
             GetRequest(JStr(url),
                        IF authHeader = JNull THEN CreateAuthHeader(username, password)
                        ELSE authHeader,
                        RootInfo))

\* The arguments of a connect call.
ConnectArgs(url, username, password) ==
    [url |-> url, username |-> username, password |-> password]

\* connect(url, username, password) up to its await: the three session
\* fields are assigned, then makeRequest checks them and sends the probe
\* (or refuses, and connect runs to its return).
ConnectCall(url, username, password) ==
    /\ Free
    /\ IF Refuses(JTrue, JStr(url))
       THEN /\ last' = [op |-> "connect", how |-> "return",
                        ret |-> ConnectOutcome(RefusedResult).v,
                        reqs |-> 0, conn |-> IsConnected,
                        args |-> ConnectArgs(url, username, password)]
            /\ sent' = NoRequest
            /\ ClearSession
            /\ UNCHANGED calls
       ELSE /\ authHeader' = CreateAuthHeader(username, password)
            /\ baseUrl' = JStr(url)
            /\ session' = JTrue
            /\ Start([InFlight("connect", "probe", IsConnected)
                         EXCEPT !.args = ConnectArgs(url, username, password)],
                     GetRequest(JStr(url), CreateAuthHeader(username, password), RootInfo))

\* The probe settles: connect runs to its return.
ConnectProbeDone(k, resp) ==
    /\ At(k, "connect", "probe")
    /\ Complete(k, ConnectOutcome(MakeRequestResult(resp)))

\* ------------------------------------------------- disconnect, isConnected
Disconnect ==
    /\ ClearSession
    /\ last' = [op |-> "disconnect", how |-> "return", ret |-> JUndef,
                reqs |-> 0, conn |-> IsConnected, args |-> NoArgs]
    /\ sent' = NoRequest
    /\ UNCHANGED calls

IsConnectedCall ==
    /\ last' = [op |-> "isConnected", how |-> "return",
                ret |-> IF IsConnected THEN JTrue ELSE JFalse,
                reqs |-> 0, conn |-> IsConnected, args |-> NoArgs]
    /\ sent' = NoRequest
    /\ UNCHANGED <<sessionVars, calls>>

\* --------------------------------------------------------- testConnection
\* The cross mark and the check mark that open testConnection's messages.
CrossMark == "[cross mark] "

CheckMark == "[check mark] "

TestConnectionIgnoresServerError(r) == [how |-> "continue", v |-> JUndef, clear |-> FALSE]

\* After the first makeRequest: the early return on its error, or nothing
\* yet (the user request comes next).
TestConnectionAfterServer(r) ==
    IF Truthy(r.error)
    THEN Return(Pair(JFalse, JStr(<<CrossMark, "Connection failed: ">> \o Text(r.error))))
    ELSE [how |-> "continue", v |-> JUndef, clear |-> FALSE]

\* The rest of the try block once the user request has settled with r.
TestConnectionAfterUser(serverData, headers, r) ==
    IF Truthy(r.error)
    THEN Return(Pair(JFalse, JStr(<<CrossMark, "User info failed: ">> \o Text(r.error))))
    ELSE LET version == ResolveVersion(serverData, headers)
         IN IF version.how = "throw" THEN version
            ELSE IF ~CanRead(r.data) THEN Throw(TypeErrorMessage(r.data, "fullName"))
            ELSE Return(Pair(JTrue,
                     JStr(<<CheckMark, "Connected as '">>
                          \o Text(OrElse(Prop(r.data, "fullName"), JStr(<<"Unknown">>)))
                          \o <<"' to Jenkins v">> \o Text(version.v))))

\* testConnection's catch block.
TestConnectionCatch(o) ==
    IF o.how = "throw"
    THEN Return(Pair(JFalse, JStr(<<CrossMark, "Connection test failed: ">> \o Text(o.v))))
    ELSE o

TestConnectionCall ==
    /\ Free
    /\ IF MakeRequestRefuses
       THEN CompleteAtCall("testConnection",
                           TestConnectionCatch(TestConnectionAfterServer(RefusedResult)))
       ELSE /\ Start(InFlight("testConnection", "server", IsConnected),
                     GetRequest(baseUrl, authHeader, RootInfo))
            /\ UNCHANGED sessionVars

\* The root info request settles; on success the user request is made,
\* which makeRequest refuses when the session has gone meanwhile.
TestConnectionServerDone(k, resp) ==
    /\ At(k, "testConnection", "server")
    /\ LET r == MakeRequestResult(resp)
           o == TestConnectionAfterServer(r)
       IN IF o.how # "continue"
          THEN Complete(k, TestConnectionCatch(o))
          ELSE IF MakeRequestRefuses
          THEN Complete(k, TestConnectionCatch(
                               TestConnectionAfterUser(r.data, r.headers, RefusedResult)))
          ELSE /\ Move(k, [k EXCEPT !.pc = "user", !.reqs = @ + 1,
                                    !.data = r.data, !.headers = r.headers],
                       GetRequest(baseUrl, authHeader, CurrentUser))
               /\ UNCHANGED sessionVars

TestConnectionUserDone(k, resp) ==
    /\ At(k, "testConnection", "user")
    /\ Complete(k, TestConnectionCatch(
                       TestConnectionAfterUser(k.data, k.headers, MakeRequestResult(resp))))

\* ------------------------------------------------------------------ getJobs
IsWhitespace(ch) == ch \in {" ", "\t"}

\* viewName.trim()
RECURSIVE TrimLeft(_)
TrimLeft(s) ==
    IF Len(s) > 0 /\ IsWhitespace(s[1]) THEN TrimLeft(Tail(s)) ELSE s

RECURSIVE TrimRight(_)
TrimRight(s) ==
    IF Len(s) > 0 /\ IsWhitespace(s[Len(s)])
    THEN TrimRight(SubSeq(s, 1, Len(s) - 1)) ELSE s

Trim(s) == TrimRight(TrimLeft(s))

\* encodeURIComponent on one character: the reserved characters and the
\* space are percent-encoded, the unreserved ones are kept.
EncodeChar(ch) ==
    CASE ch = " " -> "%20"
      [] ch = "/" -> "%2F"
      [] ch = "?" -> "%3F"
      [] ch = "#" -> "%23"
      [] ch = "&" -> "%26"
      [] ch = "%" -> "%25"
      [] ch = "\t" -> "%09"
      [] ch = "=" -> "%3D"
      [] ch = "+" -> "%2B"
      [] ch = ":" -> "%3A"
      [] ch = "," -> "%2C"
      [] OTHER -> ch

EncodeURIComponent(s) == [i \in DOMAIN s |-> EncodeChar(s[i])]

JobsTree == <<"/api/json?tree=jobs[name,color,url,buildable,description]">>

JobsEndpointKeepsAll(viewName) ==
    IF Truthy(viewName) /\ Trim(viewName.s) # <<>>
    THEN <<"/view/">> \o EncodeURIComponent(viewName.s) \o JobsTree
    ELSE JobsTree

\* The endpoint getJobs asks for.
JobsEndpoint(viewName) ==
    IF /\ Truthy(viewName)
       /\ viewName # JStr(<<"A", "l", "l">>)
       /\ Trim(viewName.s) # <<>>
    THEN <<"/view/">> \o EncodeURIComponent(viewName.s) \o JobsTree
    ELSE JobsTree

GetJobsTryDisconnectsOnError(r) ==
    IF Truthy(r.error)
    THEN ReturnAfterDisconnect(
             Pair(JNull, JStr(<<"Error listing jobs: ">> \o Text(r.error))))
    ELSE IF ~CanRead(r.data) THEN Throw(TypeErrorMessage(r.data, "jobs"))
    ELSE Return(Pair(OrElse(Prop(r.data, "jobs"), JList(<<>>)), JNull))

\* The try block of getJobs once its request has settled with r.
GetJobsTry(r) ==
    IF Truthy(r.error)
    THEN Return(Pair(JNull, JStr(<<"Error listing jobs: ">> \o Text(r.error))))
    ELSE IF ~CanRead(r.data) THEN Throw(TypeErrorMessage(r.data, "jobs"))
    ELSE Return(Pair(OrElse(Prop(r.data, "jobs"), JList(<<>>)), JNull))

GetJobsCatch(o) ==
    IF o.how = "throw"
    THEN Return(Pair(JNull, JStr(<<"Error listing jobs: ">> \o Text(o.v))))
    ELSE o

GetJobsCall(viewName) ==
    /\ Free
    /\ IF MakeRequestRefuses
       THEN CompleteAtCall("getJobs", GetJobsCatch(GetJobsTry(RefusedResult)))
       ELSE /\ Start(InFlight("getJobs", "jobs", IsConnected),
                     GetRequest(baseUrl, authHeader, JobsEndpoint(viewName)))
            /\ UNCHANGED sessionVars

GetJobsRetries(k, resp) ==
    /\ At(k, "getJobs", "jobs")
    /\ IF ~resp.ok /\ k.reqs < 3 /\ ~MakeRequestRefuses
       THEN /\ Move(k, [k EXCEPT !.reqs = @ + 1], GetRequest(baseUrl, authHeader, JobsTree))
            /\ UNCHANGED sessionVars
       ELSE Complete(k, GetJobsCatch(GetJobsTry(MakeRequestResult(resp))))

GetJobsDone(k, resp) ==
    /\ At(k, "getJobs", "jobs")
    /\ Complete(k, GetJobsCatch(GetJobsTry(MakeRequestResult(resp))))

\* ------------------------------------------------------------- getJobDetail
JobDetailEndpoint(jobName) ==
    <<"/job/", jobName,
      "/api/json?tree=name,description,buildable,color,url,lastBuild[number,url,result,timestamp],builds[number,url,result,timestamp]">>

GetJobDetailTry(r) ==
    IF Truthy(r.error)
    THEN Return(Pair(JNull, JStr(<<"Error getting job details: ">> \o Text(r.error))))
    ELSE Return(Pair(r.data, JNull))

GetJobDetailCatch(o) ==
    IF o.how = "throw"
    THEN Return(Pair(JNull, JStr(<<"Error getting job details: ">> \o Text(o.v))))
    ELSE o

GetJobDetailCall(jobName) ==
    /\ Free
    /\ IF MakeRequestRefuses
       THEN CompleteAtCall("getJobDetail",
                           GetJobDetailCatch(GetJobDetailTry(RefusedResult)))
       ELSE /\ Start(InFlight("getJobDetail", "detail", IsConnected),
                     GetRequest(baseUrl, authHeader, JobDetailEndpoint(jobName)))
            /\ UNCHANGED sessionVars

GetJobDetailDone(k, resp) ==
    /\ At(k, "getJobDetail", "detail")
    /\ Complete(k, GetJobDetailCatch(GetJobDetailTry(MakeRequestResult(resp))))

\* ------------------------------------------- getJobConfig, updateJobConfig
ConfigUrlOptionalChaining(base, jobName) ==
    Return(JStr((IF CanRead(base) THEN StripTrailingSlash(base.s) ELSE <<"undefined">>)
                \o <<"/job/", jobName, "/config.xml">>))

\* `${this.baseUrl.replace(/\/$/, '')}/job/${jobName}/config.xml`: the url,
\* or the TypeError of calling replace on a null base URL.
ConfigUrl(base, jobName) ==
    IF ~CanRead(base) THEN Throw(TypeErrorMessage(base, "replace"))
    ELSE Return(JStr(StripTrailingSlash(base.s) \o <<"/job/", jobName, "/config.xml">>))

\* The try block of getJobConfig once the HTTP library has settled its GET.
GetJobConfigTry(resp) ==
    IF resp.ok THEN Return(Pair(resp.data, JNull)) ELSE Throw(resp.message)

GetJobConfigCatch(o) ==
    IF o.how = "throw"
    THEN Return(Pair(JNull, JStr(<<"Error getting job config: ">> \o Text(o.v))))
    ELSE o

GetJobConfigCall(jobName) ==
    /\ Free
    /\ LET url == ConfigUrl(baseUrl, jobName)
       IN IF url.how = "throw"
          THEN CompleteAtCall("getJobConfig", GetJobConfigCatch(url))
          ELSE /\ Start(InFlight("getJobConfig", "config", IsConnected),
                        [method |-> "GET", url |-> url.v.s,
                         headers |-> authHeader, body |-> JUndef])
               /\ UNCHANGED sessionVars

GetJobConfigDone(k, resp) ==
    /\ At(k, "getJobConfig", "config")
    /\ Complete(k, GetJobConfigCatch(GetJobConfigTry(resp)))

\* { ...this.authHeader, 'Content-Type': 'application/xml' }
UpdateHeaders(auth) ==
    JObj((IF auth.t = "obj" THEN auth.kv ELSE <<>>)
         \o << <<"Content-Type", JStr(<<"application/xml">>)>> >>)

UpdateJobConfigTry(resp) ==
    IF resp.ok
    THEN Return(Pair(JTrue, JStr(<<"Job configuration updated successfully">>)))
    ELSE Throw(resp.message)

UpdateJobConfigCatch(o) ==
    IF o.how = "throw"
    THEN Return(Pair(JFalse, JStr(<<"Error updating job config: ">> \o Text(o.v))))
    ELSE o

UpdateJobConfigCall(jobName, configXml) ==
    /\ Free
    /\ LET url == ConfigUrl(baseUrl, jobName)
       IN IF url.how = "throw"
          THEN CompleteAtCall("updateJobConfig", UpdateJobConfigCatch(url))
          ELSE /\ Start(InFlight("updateJobConfig", "post", IsConnected),
                        [method |-> "POST", url |-> url.v.s,
                         headers |-> UpdateHeaders(authHeader),
                         body |-> JStr(<<configXml>>)])
               /\ UNCHANGED sessionVars

UpdateJobConfigDone(k, resp) ==
    /\ At(k, "updateJobConfig", "post")
    /\ Complete(k, UpdateJobConfigCatch(UpdateJobConfigTry(resp)))

\* ------------------------------------------------------------ getServerInfo
Unknown == JStr(<<"Unknown">>)

\* value.length: the length of an array (of a string, its pieces), and
\* undefined for what has no length.
LengthOf(v) ==
    CASE v.t = "list" -> JNum(Len(v.l))
      [] v.t = "str" -> JNum(Len(v.s))
      [] OTHER -> JUndef

GetServerInfoAfterServer(r) ==
    IF Truthy(r.error)
    THEN Return(Pair(JNull, JStr(<<"Error getting server info: ">> \o Text(r.error))))
    ELSE [how |-> "continue", v |-> JUndef, clear |-> FALSE]

\* userInfo and userId from the settled user request.
UserFields(r) ==
    IF ~Truthy(r.error) /\ Truthy(r.data)
    THEN [userInfo |-> OrElse(Prop(r.data, "fullName"), Unknown),
          userId |-> OrElse(Prop(r.data, "id"), Unknown)]
    ELSE [userInfo |-> Unknown, userId |-> Unknown]

PluginCountNullWhenSkipped(r) ==
    IF ~Truthy(r.error) /\ Truthy(r.data)
    THEN LengthOf(OrElse(Prop(r.data, "plugins"), JList(<<>>)))
    ELSE JNull

\* pluginCount from the settled plugin request.
PluginCount(r) ==
    IF ~Truthy(r.error) /\ Truthy(r.data)
    THEN LengthOf(OrElse(Prop(r.data, "plugins"), JList(<<>>)))
    ELSE Unknown

GetServerInfoFailsWithoutPlugins(serverData, headers, user, pluginCount) ==
    LET version == ResolveVersion(serverData, headers)
    IN IF pluginCount = Unknown THEN Throw(<<"plugin list unavailable">>)
       ELSE IF version.how = "throw" THEN version
       ELSE IF ~CanRead(serverData) THEN Throw(TypeErrorMessage(serverData, "nodeName"))
       ELSE Return(Pair(
                JObj(<< <<"version", version.v>>,
                        <<"node_name", OrElse(Prop(serverData, "nodeName"), Unknown)>>,
                        <<"user_info", user.userInfo>>,
                        <<"user_id", user.userId>>,
                        <<"plugin_count", pluginCount>>,
                        <<"headers", [t |-> "headers", h |-> headers]>>,
                        <<"server_data", serverData>> >>),
                JNull))

\* The end of the try block: the version, the node name and the result.
GetServerInfoFinish(serverData, headers, user, pluginCount) ==
    LET version == ResolveVersion(serverData, headers)
    IN IF version.how = "throw" THEN version
       ELSE IF ~CanRead(serverData) THEN Throw(TypeErrorMessage(serverData, "nodeName"))
       ELSE Return(Pair(
                JObj(<< <<"version", version.v>>,
                        <<"node_name", OrElse(Prop(serverData, "nodeName"), Unknown)>>,
                        <<"user_info", user.userInfo>>,
                        <<"user_id", user.userId>>,
                        <<"plugin_count", pluginCount>>,
                        <<"headers", [t |-> "headers", h |-> headers]>>,
                        <<"server_data", serverData>> >>),
                JNull))

GetServerInfoCatch(o) ==
    IF o.how = "throw"
    THEN Return(Pair(JNull, JStr(<<"Error getting server info: ">> \o Text(o.v))))
    ELSE o

GetServerInfoCall ==
    /\ Free
    /\ IF MakeRequestRefuses
       THEN CompleteAtCall("getServerInfo",
                           GetServerInfoCatch(GetServerInfoAfterServer(RefusedResult)))
       ELSE /\ Start(InFlight("getServerInfo", "server", IsConnected),
                     GetRequest(baseUrl, authHeader, RootInfo))
            /\ UNCHANGED sessionVars

\* The primary request settles. On success the user request is made; when
\* makeRequest refuses it, it refuses the plugin request as well and the
\* call runs to its return.
GetServerInfoServerDone(k, resp) ==
    /\ At(k, "getServerInfo", "server")
    /\ LET r == MakeRequestResult(resp)
           o == GetServerInfoAfterServer(r)
       IN IF o.how # "continue"
          THEN Complete(k, GetServerInfoCatch(o))
          ELSE IF MakeRequestRefuses
          THEN Complete(k, GetServerInfoCatch(
                               GetServerInfoFinish(r.data, r.headers,
                                                   UserFields(RefusedResult),
                                                   PluginCount(RefusedResult))))
          ELSE /\ Move(k, [k EXCEPT !.pc = "user", !.reqs = @ + 1,
                                    !.data = r.data, !.headers = r.headers],
                       GetRequest(baseUrl, authHeader, CurrentUser))
               /\ UNCHANGED sessionVars

\* The user request settles, then the plugin request is made.
GetServerInfoUserDone(k, resp) ==
    /\ At(k, "getServerInfo", "user")
    /\ LET user == UserFields(MakeRequestResult(resp))
       IN IF MakeRequestRefuses
          THEN Complete(k, GetServerInfoCatch(
                               GetServerInfoFinish(k.data, k.headers, user,
                                                   PluginCount(RefusedResult))))
          ELSE /\ Move(k, [k EXCEPT !.pc = "plugins", !.reqs = @ + 1,
                                    !.userInfo = user.userInfo,
                                    !.userId = user.userId],
                       GetRequest(baseUrl, authHeader, PluginManager))
               /\ UNCHANGED sessionVars

GetServerInfoPluginsDone(k, resp) ==
    /\ At(k, "getServerInfo", "plugins")
    /\ Complete(k, GetServerInfoCatch(
                       GetServerInfoFinish(k.data, k.headers,
                                           [userInfo |-> k.userInfo, userId |-> k.userId],
                                           PluginCount(MakeRequestResult(resp)))))

\* ------------------------------------------------------------- getDebugInfo
\* .slice(0, 10) of the keys and .substring(0, 100) of each value.
SampleKeys == 10

SampleChars == 100

Min(a, b) == IF a <= b THEN a ELSE b

\* typeof data === 'object' && data !== null
IsObject(v) == v.t \in {"obj", "list"}

\* Object.keys(data) of an object.
Keys(v) == IF v.t = "obj" THEN [i \in DOMAIN v.kv |-> v.kv[i][1]] ELSE <<>>

RECURSIVE JoinComma(_)
\* String(value): a string is itself, an array is its elements joined by
\* commas, an object is "[object Object]".
StringOf(v) ==
    CASE v.t = "str" -> v.s
      [] v.t = "null" -> <<"null">>
      [] v.t = "undefined" -> <<"undefined">>
      [] v.t = "bool" -> IF v.b THEN <<"true">> ELSE <<"false">>
      [] v.t = "num" -> <<ToString(v.n)>>
      [] v.t = "list" -> JoinComma(v.l)
      [] OTHER -> <<"[object Object]">>

JoinComma(l) ==
    IF Len(l) = 0 THEN <<>>
    ELSE IF Len(l) = 1 THEN StringOf(l[1])
    ELSE StringOf(l[1]) \o <<",">> \o JoinComma(Tail(l))

\* s.substring(0, n), one piece of s per character.
Substring(s, n) == SubSeq(s, 1, Min(n, Len(s)))

SampleDataOfAllKeys(data) ==
    IF IsObject(data)
    THEN JObj([i \in 1..Len(Keys(data)) |->
                 <<Keys(data)[i],
                   JStr(Substring(StringOf(Prop(data, Keys(data)[i])), SampleChars))>>])
    ELSE JObj(<<>>)

SampleData(data) ==
    IF IsObject(data)
    THEN JObj([i \in 1..Min(SampleKeys, Len(Keys(data))) |->
                 <<Keys(data)[i],
                   JStr(Substring(StringOf(Prop(data, Keys(data)[i])), SampleChars))>>])
    ELSE JObj(<<>>)

\* The try block of getDebugInfo once its request has settled with r.
GetDebugInfoTry(r) ==
    IF Truthy(r.error)
    THEN Return(Pair(JNull, JStr(<<"Debug Error: ">> \o Text(r.error))))
    ELSE IF ~CanRead(r.data) THEN Throw(TypeErrorMessage(r.data, "version"))
    ELSE Return(Pair(
             JObj(<< <<"headers", [t |-> "headers", h |-> r.headers]>>,
                     <<"json_keys",
                       JList(IF IsObject(r.data)
                             THEN [i \in DOMAIN Keys(r.data) |-> JStr(<<Keys(r.data)[i]>>)]
                             ELSE <<>>)>>,
                     <<"header_version", GetVersionFromHeaders(r.headers)>>,
                     <<"json_version",
                       OrElse(Prop(r.data, "version"), JStr(<<"Not found in JSON">>))>>,
                     <<"sample_data", SampleData(r.data)>> >>),
             JNull))

GetDebugInfoRethrows(o) == o

\* getDebugInfo's catch block.
GetDebugInfoCatch(o) ==
    IF o.how = "throw"
    THEN Return(Pair(JNull, JStr(<<"Debug function error: ">> \o Text(o.v))))
    ELSE o

GetDebugInfoCall ==
    /\ Free
    /\ IF MakeRequestRefuses
       THEN CompleteAtCall("getDebugInfo", GetDebugInfoCatch(GetDebugInfoTry(RefusedResult)))
       ELSE /\ Start(InFlight("getDebugInfo", "debug", IsConnected),
                     GetRequest(baseUrl, authHeader, RootInfo))
            /\ UNCHANGED sessionVars

GetDebugInfoDone(k, resp) ==
    /\ At(k, "getDebugInfo", "debug")
    /\ Complete(k, GetDebugInfoCatch(GetDebugInfoTry(MakeRequestResult(resp))))

\* ------------------------------------------------------------ specification
InFlightCalls == BagToSet(calls)

Next ==
    \/ \E i \in ConnectInputs : ConnectCall(i.url, i.username, i.password) /\ UNCHANGED reply
    \/ \E k \in InFlightCalls, resp \in Responses : ConnectProbeDone(k, resp) /\ UNCHANGED reply
    \/ Disconnect /\ UNCHANGED reply
    \/ IsConnectedCall /\ UNCHANGED reply
    \/ TestConnectionCall /\ UNCHANGED reply
    \/ \E k \in InFlightCalls, resp \in Responses : TestConnectionServerDone(k, resp)
           /\ UNCHANGED reply
    \/ \E k \in InFlightCalls, resp \in Responses : TestConnectionUserDone(k, resp)
           /\ UNCHANGED reply
    \/ \E viewName \in ViewNames : GetJobsCall(viewName) /\ UNCHANGED reply
    \/ \E k \in InFlightCalls, resp \in Responses : GetJobsDone(k, resp) /\ UNCHANGED reply
    \/ \E jobName \in JobNames : GetJobDetailCall(jobName) /\ UNCHANGED reply
    \/ \E k \in InFlightCalls, resp \in Responses : GetJobDetailDone(k, resp) /\ UNCHANGED reply
    \/ \E jobName \in JobNames : GetJobConfigCall(jobName) /\ UNCHANGED reply
    \/ \E k \in InFlightCalls, resp \in Responses : GetJobConfigDone(k, resp) /\ UNCHANGED reply
    \/ \E jobName \in JobNames, configXml \in ConfigXmls :
           UpdateJobConfigCall(jobName, configXml) /\ UNCHANGED reply
    \/ \E k \in InFlightCalls, resp \in Responses : UpdateJobConfigDone(k, resp)
           /\ UNCHANGED reply
    \/ GetServerInfoCall /\ UNCHANGED reply
    \/ \E k \in InFlightCalls, resp \in Responses : GetServerInfoServerDone(k, resp)
           /\ UNCHANGED reply
    \/ \E k \in InFlightCalls, resp \in Responses : GetServerInfoUserDone(k, resp)
           /\ UNCHANGED reply
    \/ \E k \in InFlightCalls, resp \in Responses : GetServerInfoPluginsDone(k, resp)
           /\ UNCHANGED reply
    \/ GetDebugInfoCall /\ UNCHANGED reply
    \/ \E k \in InFlightCalls, resp \in Responses : GetDebugInfoDone(k, resp) /\ UNCHANGED reply

Spec == Init /\ [][Next]_vars

\* ------------------------------------------- one call at a time, all cases
\* No call is in flight.
Idle == calls = EmptyBag

\* The client used by one caller at a time, against every class of
\* failure of the HTTP library.
SeqNext ==
    \/ \E i \in ConnectInputs : Idle /\ ConnectCall(i.url, i.username, i.password)
           /\ UNCHANGED reply
    \/ \E k \in InFlightCalls, resp \in Responses \cup VersionResponses :
           ConnectProbeDone(k, resp) /\ UNCHANGED reply
    \/ Disconnect /\ UNCHANGED reply
    \/ Idle /\ TestConnectionCall /\ UNCHANGED reply
    \/ \E k \in InFlightCalls, resp \in Responses \cup VersionResponses :
           TestConnectionServerDone(k, resp) /\ UNCHANGED reply
    \/ \E k \in InFlightCalls, resp \in Responses \cup UserResponses :
           TestConnectionUserDone(k, resp) /\ UNCHANGED reply
    \/ Idle /\ GetServerInfoCall /\ UNCHANGED reply
    \/ \E k \in InFlightCalls, resp \in Responses \cup VersionResponses :
           GetServerInfoServerDone(k, resp) /\ UNCHANGED reply
    \/ \E k \in InFlightCalls, resp \in Responses : GetServerInfoUserDone(k, resp)
           /\ UNCHANGED reply
    \/ \E k \in InFlightCalls, resp \in Responses : GetServerInfoPluginsDone(k, resp)
           /\ UNCHANGED reply
    \/ \E returnHeaders \in BOOLEAN : Idle /\ MakeRequestCall(RootInfo, returnHeaders)
           /\ UNCHANGED reply
    \/ \E k \in InFlightCalls, resp \in OkResponses \cup Failures : MakeRequestDone(k, resp)
           /\ UNCHANGED reply
    \/ \E viewName \in SeqViewNames : Idle /\ GetJobsCall(viewName) /\ UNCHANGED reply
    \/ \E k \in InFlightCalls, resp \in Responses : GetJobsDone(k, resp) /\ UNCHANGED reply
    \/ Idle /\ GetDebugInfoCall /\ UNCHANGED reply
    \/ \E k \in InFlightCalls, h \in SeqHeaderSets : GetDebugInfoDone(k, Ok(h, FullBody))
           /\ UNCHANGED reply
    \/ \E k \in InFlightCalls, n \in DebugSizes :
           GetDebugInfoDone(k, Ok(NoHeaders, DebugBody(n))) /\ UNCHANGED reply

SeqSpec == Init /\ [][SeqNext]_vars

\* ------------------------------------------------------ the REST routes
\* res.status(status).json(body)
Reply(status, body) == [status |-> status, body |-> body]

Failure(message) == JObj(<< <<"success", JFalse>>, <<"message", message>> >>)

\* The response of a guarded route when isConnected() is false.
NotConnectedReply == Reply(400, Failure(JStr(NotConnectedError)))

\* The catch block of every route handler.
ServerErrorReply(l) == Reply(500, Failure(JStr(<<"Server error: ">> \o Text(l.ret))))

\* POST /api/connect, after `await jenkinsClient.connect(...)`.
ConnectReply(l) ==
    IF l.how = "throw" THEN ServerErrorReply(l)
    ELSE Reply(200, JObj(<< <<"success", Fst(l.ret)>>, <<"message", Snd(l.ret)>> >>))

\* GET /api/test-connection, after `await jenkinsClient.testConnection()`.
TestConnectionReply(l) ==
    IF l.how = "throw" THEN ServerErrorReply(l)
    ELSE Reply(200, JObj(<< <<"success", Fst(l.ret)>>, <<"data", Snd(l.ret)>> >>))

\* The routes that destructure [result, error]: after the await, status
\* 500 with the error when there is one, the result otherwise.
ResultReply(l) ==
    IF l.how = "throw" THEN ServerErrorReply(l)
    ELSE IF Truthy(Snd(l.ret)) THEN Reply(500, Failure(Snd(l.ret)))
    ELSE Reply(200, JObj(<< <<"success", JTrue>>, <<"data", Fst(l.ret)>> >>))

\* What the handler of the call that has just returned l sends.
RouteReply(l) ==
    CASE l.op = "none" -> NoReply
      [] l.op = "connect" -> ConnectReply(l)
      [] l.op = "testConnection" -> TestConnectionReply(l)
      [] OTHER -> ResultReply(l)

\* The rest of a route handler, after its await: when the call has
\* returned, it sends the response.
Respond == reply' = RouteReply(last')

\* A guarded route refuses the request: no client call is made.
Refuse ==
    /\ reply' = NotConnectedReply
    /\ last' = NoCall
    /\ sent' = NoRequest
    /\ UNCHANGED <<sessionVars, calls>>

\* The request bodies of POST /api/connect: the inputs of connect, and one
\* with a field missing.
RouteConnectInputs ==
    ConnectInputs \cup {[url |-> <<>>, username |-> "alice", password |-> "pw-a"]}

\* POST /api/connect
RouteConnect(url, username, password) ==
    IF url = <<>> \/ username = "" \/ password = ""
    THEN /\ reply' = Reply(400, Failure(JStr(
                         <<"Missing required fields: url, username, password">>)))
         /\ last' = NoCall
         /\ sent' = NoRequest
         /\ UNCHANGED <<sessionVars, calls>>
    ELSE /\ ConnectCall(url, username, password)
         /\ Respond

\* POST /api/disconnect
RouteDisconnect ==
    /\ Disconnect
    /\ reply' = Reply(200, JObj(<< <<"success", JTrue>>,
                                   <<"message", JStr(<<"Disconnected from Jenkins">>)>> >>))

\* GET /api/test-connection
RouteTestConnection ==
    IF ~IsConnected THEN Refuse
    ELSE TestConnectionCall /\ Respond

\* GET /api/jobs, with the view of its query string, if any: the handler
\* calls getJobs() without an argument.
RouteJobs(view) ==
    IF ~IsConnected THEN Refuse
    ELSE GetJobsCall(NoView) /\ Respond

\* GET /api/jobs/:jobName
RouteJobDetail(jobName) ==
    IF ~IsConnected THEN Refuse
    ELSE GetJobDetailCall(jobName) /\ Respond

\* GET /api/jobs/:jobName/config
RouteJobConfig(jobName) ==
    IF ~IsConnected THEN Refuse
    ELSE GetJobConfigCall(jobName) /\ Respond

\* GET /api/server-info
RouteServerInfo ==
    IF ~IsConnected THEN Refuse
    ELSE GetServerInfoCall /\ Respond

\* GET /api/debug-info
RouteDebugInfo ==
    IF ~IsConnected THEN Refuse
    ELSE GetDebugInfoCall /\ Respond

\* GET /api/connection-status
RouteConnectionStatus ==
    /\ IsConnectedCall
    /\ reply' = Reply(200, JObj(<< <<"connected", last'.ret>>,
                                   <<"message",
                                     JStr(IF IsConnected THEN <<"Connected">>
                                          ELSE <<"Not connected">>)>> >>))

\* PUT /api/jobs/:jobName/config, as the pipeline editor sends it: the
\* server registers no handler for it and for no other route on
\* updateJobConfig, so the framework answers 404 and the client is not
\* called.
RoutePutJobConfig(jobName, configXml) ==
    /\ reply' = Reply(404, JStr(<<"Cannot PUT ", "/api/jobs/", jobName, "/config">>))
    /\ last' = NoCall
    /\ sent' = NoRequest
    /\ UNCHANGED <<sessionVars, calls>>

\* The server: the client is called by the route handlers only.
RouteNext ==
    \/ \E i \in RouteConnectInputs : RouteConnect(i.url, i.username, i.password)
    \/ RouteDisconnect
    \/ RouteTestConnection
    \/ \E view \in ViewNames : RouteJobs(view)
    \/ \E jobName \in JobNames : RouteJobDetail(jobName)
    \/ \E jobName \in JobNames : RouteJobConfig(jobName)
    \/ \E jobName \in JobNames, configXml \in ConfigXmls :
           RoutePutJobConfig(jobName, configXml)
    \/ RouteServerInfo
    \/ RouteDebugInfo
    \/ RouteConnectionStatus
    \/ \E k \in InFlightCalls, resp \in Responses : ConnectProbeDone(k, resp) /\ Respond
    \/ \E k \in InFlightCalls, resp \in Responses :
           TestConnectionServerDone(k, resp) /\ Respond
    \/ \E k \in InFlightCalls, resp \in Responses :
           TestConnectionUserDone(k, resp) /\ Respond
    \/ \E k \in InFlightCalls, resp \in Responses : GetJobsDone(k, resp) /\ Respond
    \/ \E k \in InFlightCalls, resp \in Responses : GetJobDetailDone(k, resp) /\ Respond
    \/ \E k \in InFlightCalls, resp \in Responses : GetJobConfigDone(k, resp) /\ Respond
    \/ \E k \in InFlightCalls, resp \in Responses :
           GetServerInfoServerDone(k, resp) /\ Respond
    \/ \E k \in InFlightCalls, resp \in Responses :
           GetServerInfoUserDone(k, resp) /\ Respond
    \/ \E k \in InFlightCalls, resp \in Responses :
           GetServerInfoPluginsDone(k, resp) /\ Respond
    \/ \E k \in InFlightCalls, resp \in Responses : GetDebugInfoDone(k, resp) /\ Respond

RouteSpec == Init /\ [][RouteNext]_vars

\* ------------------------------------------------------------------ the UI
\* The HTTP library of the UI resolves a response with a 2xx status and
\* rejects any other.
Resolves(r) == r.status >= 200 /\ r.status < 300

\* error.response?.data?.message || error.message || fallback, for the
\* rejection of the response r.
RejectionMessage(r, fallback) ==
    OrElse(Prop(r.body, "message"),
           OrElse(JStr(<<"Request failed with status code ", ToString(r.status)>>),
                  JStr(fallback)))

\* What the UI shows: its results and its error.
Shown(results, error) == [results |-> results, error |-> error]

ShowError(message) == Shown(JStr(<<CrossMark>> \o Text(message)), message)

\* obj.key = value on an object.
WithProp(obj, key, value) == JObj(obj.kv \o << <<key, value>> >>)

\* handleGetJobDetails, given the responses of the job-detail and the
\* job-config routes and which of the two settled first: Promise.all
\* rejects with the first rejection, and the catch block shows it.
HandleGetJobDetails(jobResponse, configResponse, first) ==
    LET fallback == <<"Failed to get job details">>
    IN IF ~Resolves(jobResponse) /\ (first = "job" \/ Resolves(configResponse))
       THEN ShowError(RejectionMessage(jobResponse, fallback))
       ELSE IF ~Resolves(configResponse)
       THEN ShowError(RejectionMessage(configResponse, fallback))
       ELSE IF Truthy(Prop(jobResponse.body, "success"))
       THEN LET jobDetail == Prop(jobResponse.body, "data")
            IN IF ~Truthy(Prop(configResponse.body, "success"))
               THEN Shown(jobDetail, JStr(<<>>))
               ELSE IF jobDetail.t = "obj"
               THEN Shown(WithProp(jobDetail, "configXml",
                                   Prop(configResponse.body, "data")),
                          JStr(<<>>))
               ELSE ShowError(JStr(<<"Cannot set properties of ", jobDetail.t,
                                     " (setting 'configXml')">>))
       ELSE ShowError(Prop(jobResponse.body, "message"))

\* ------------------------------------------------------------------ claims
\* The string msg contains the string part.
Embeds(msg, part) ==
    \E i \in 1..(Len(msg) + 1) :
        /\ i + Len(part) - 1 <= Len(msg)
        /\ SubSeq(msg, i, i + Len(part) - 1) = part

Present(v) == v.t # "null"

SessionCleared == ~Present(session) /\ ~Present(baseUrl) /\ ~Present(authHeader)

\* The operations other than connect, disconnect and isConnected.
GuardedOps ==
    {"testConnection", "getJobs", "getJobDetail", "getJobConfig", "updateJobConfig",
     "getServerInfo", "getDebugInfo"}

\* The operations that return [success, message].
FlagOps == {"connect", "testConnection", "updateJobConfig"}

\* The returned pair reports a failure: a false flag or a null result,
\* with a non-empty message.
ErrorOutcome(l) ==
    /\ l.ret.t = "list"
    /\ IF l.op \in FlagOps THEN Fst(l.ret) = JFalse ELSE Fst(l.ret) = JNull
    /\ Snd(l.ret).t = "str"
    /\ Snd(l.ret).s # <<>>

ConnectStarts == \E i \in ConnectInputs : ConnectCall(i.url, i.username, i.password)

\* A step of an operation other than connect and disconnect.
OtherOperationStep ==
    \/ IsConnectedCall
    \/ TestConnectionCall
    \/ \E k \in InFlightCalls, resp \in Responses : TestConnectionServerDone(k, resp)
    \/ \E k \in InFlightCalls, resp \in Responses : TestConnectionUserDone(k, resp)
    \/ \E viewName \in ViewNames : GetJobsCall(viewName)
    \/ \E k \in InFlightCalls, resp \in Responses : GetJobsDone(k, resp)
    \/ \E jobName \in JobNames : GetJobDetailCall(jobName)
    \/ \E k \in InFlightCalls, resp \in Responses : GetJobDetailDone(k, resp)
    \/ \E jobName \in JobNames : GetJobConfigCall(jobName)
    \/ \E k \in InFlightCalls, resp \in Responses : GetJobConfigDone(k, resp)
    \/ \E jobName \in JobNames, configXml \in ConfigXmls :
           UpdateJobConfigCall(jobName, configXml)
    \/ \E k \in InFlightCalls, resp \in Responses : UpdateJobConfigDone(k, resp)
    \/ GetServerInfoCall
    \/ \E k \in InFlightCalls, resp \in Responses : GetServerInfoServerDone(k, resp)
    \/ \E k \in InFlightCalls, resp \in Responses : GetServerInfoUserDone(k, resp)
    \/ \E k \in InFlightCalls, resp \in Responses : GetServerInfoPluginsDone(k, resp)
    \/ GetDebugInfoCall
    \/ \E k \in InFlightCalls, resp \in Responses : GetDebugInfoDone(k, resp)

\* C1: in every state between the steps of the client, the session flag,
\* the base URL and the credential header are all present or all absent,
\* and isConnected() is true exactly when they are all present.
C1_SessionAllOrNothing ==
    /\ Present(session) = Present(baseUrl)
    /\ Present(baseUrl) = Present(authHeader)
    /\ IsConnected = (Present(session) /\ Present(baseUrl) /\ Present(authHeader))

\* A disconnect has just cleared a session while a call is still in flight.
C1_Witness ==
    /\ last.op = "disconnect"
    /\ last.conn
    /\ SessionCleared
    /\ calls # EmptyBag

\* C2: when the probe of a connect settles with an error, connect returns
\* [false, message] with the error message of the transport primitive in
\* the message, and leaves the session fully disconnected.
C2_FailedProbeRollsBack ==
    [][\A k \in InFlightCalls, resp \in StatusErrors \cup TransportErrors :
           ConnectProbeDone(k, resp) =>
               /\ SessionCleared'
               /\ ~IsConnected'
               /\ last'.op = "connect"
               /\ last'.how = "return"
               /\ Fst(last'.ret) = JFalse
               /\ Embeds(Snd(last'.ret).s, ClassifyError(resp))]_vars

\* A connect has returned the authentication failure of its probe.
C2_Witness ==
    /\ last.op = "connect"
    /\ Fst(last.ret) = JFalse
    /\ Embeds(Snd(last.ret).s, <<"Authentication failed - check username/password">>)
    /\ SessionCleared

\* C3: disconnect leaves isConnected() false, and isConnected() turns from
\* false to true only in the step in which a connect call starts; a probe
\* that settles later does not bring the session back.
C3_DisconnectedUntilConnect ==
    [][/\ Disconnect => ~IsConnected'
       /\ (~IsConnected /\ IsConnected') => ConnectStarts]_vars

\* A connect has returned success after the session was cleared under it.
C3_Witness ==
    /\ last.op = "connect"
    /\ Fst(last.ret) = JTrue
    /\ ~IsConnected

\* C4: called while the session is not connected, each of the seven
\* operations returns an error outcome and sends no request.
C4_NoRequestWhenDisconnected ==
    (last.op \in GuardedOps /\ ~last.conn) =>
        /\ last.how = "return"
        /\ ErrorOutcome(last)
        /\ last.reqs = 0
        /\ sent = NoRequest

\* getJobConfig was called without a session.
C4_Witness ==
    /\ last.op = "getJobConfig"
    /\ ~last.conn
    /\ last.reqs = 0
    /\ ErrorOutcome(last)

\* C5: called while the session is not connected, each of the seven
\* operations reports "Not connected to Jenkins server".
C5_NotConnectedMessage ==
    (last.op \in GuardedOps /\ ~last.conn) =>
        /\ last.ret.t = "list"
        /\ Snd(last.ret).t = "str"
        /\ Embeds(Snd(last.ret).s, NotConnectedError)

\* A component of a returned pair that carries nothing.
Empty(v) == ~Truthy(v)

\* C6, for the operations that return [result, error] (getJobs,
\* getJobDetail, getJobConfig, getServerInfo, getDebugInfo): of the two
\* components exactly one is populated, whatever the response body.
C6_ExactlyOnePopulated ==
    (last.op \in GuardedOps \ FlagOps) =>
        /\ last.ret.t = "list"
        /\ Empty(Fst(last.ret)) # Empty(Snd(last.ret))

\* C7: no operation ends by throwing.
C7_NothingThrown == last.how = "return"

\* getDebugInfo has caught the TypeError of reading a null body.
C7_Witness ==
    /\ last.op = "getDebugInfo"
    /\ last.how = "return"
    /\ Embeds(Snd(last.ret).s, <<"Debug function error: ">>)

\* C8: the steps of the operations other than connect and disconnect
\* leave the session flag, the base URL and the credential header as
\* they are, whether they succeed or fail.
C8_OnlyConnectAndDisconnectWrite ==
    [][OtherOperationStep => UNCHANGED sessionVars]_vars

\* getJobs has failed on a live session, which is still there.
C8_Witness ==
    /\ last.op = "getJobs"
    /\ last.conn
    /\ ErrorOutcome(last)
    /\ IsConnected

\* C9: disconnect clears the base URL and the credential header from any
\* state, returns, and changes nothing when they are already cleared.
C9_DisconnectIdempotent ==
    [][Disconnect =>
           /\ SessionCleared'
           /\ last'.how = "return"
           /\ SessionCleared => UNCHANGED <<sessionVars, calls>>]_vars

\* A disconnect has run while a connect probe is in flight.
C9_Witness ==
    /\ last.op = "disconnect"
    /\ SessionCleared
    /\ \E k \in InFlightCalls : k.op = "connect"

\* C10: isConnected() changes nothing and returns true exactly when the
\* base URL and the credential header are both present.
C10_IsConnectedPure ==
    [][IsConnectedCall =>
           /\ UNCHANGED <<sessionVars, calls>>
           /\ last'.ret = (IF Present(baseUrl) /\ Present(authHeader)
                           THEN JTrue ELSE JFalse)]_vars

\* isConnected() has returned true.
C10_Witness ==
    /\ last.op = "isConnected"
    /\ last.ret = JTrue
    /\ Present(baseUrl)
    /\ Present(authHeader)

\* The seven classes of failure of a request.
FailureClasses == {"401", "403", "404", "http", "network", "timeout", "other"}

\* The class of a failure: its response status when it has a response,
\* its transport code otherwise.
FailureClass(e) ==
    IF e.hasResponse
    THEN (IF e.status \in {401, 403, 404} THEN ToString(e.status) ELSE "http")
    ELSE IF e.code \in {"ECONNREFUSED", "ENOTFOUND"} THEN "network"
    ELSE IF e.code = "ETIMEDOUT" THEN "timeout"
    ELSE "other"

\* The text that opens the message of each class.
ClassOpening(class) ==
    CASE class = "401" -> "Authentication failed - check username/password"
      [] class = "403" -> "Access denied - insufficient permissions"
      [] class = "404" -> "Jenkins server not found or endpoint unavailable"
      [] class = "http" -> "HTTP "
      [] class = "network" -> "Connection failed - check server URL and network"
      [] class = "timeout" -> "Request timeout - Jenkins server may be slow"
      [] OTHER -> "Request error: "

RequestAnswered(k, resp) ==
    \/ ConnectProbeDone(k, resp)
    \/ TestConnectionServerDone(k, resp)
    \/ TestConnectionUserDone(k, resp)
    \/ GetJobsDone(k, resp)
    \/ GetJobDetailDone(k, resp)
    \/ GetJobConfigDone(k, resp)
    \/ UpdateJobConfigDone(k, resp)
    \/ GetServerInfoServerDone(k, resp)
    \/ GetDebugInfoDone(k, resp)

\* C12: when Jenkins answers the request of an operation with HTTP 401,
\* the operation returns an error that contains the authentication-failed
\* text and not the access-denied text of HTTP 403.
C12_AuthenticationFailedEverywhere ==
    [][\A k \in InFlightCalls, resp \in StatusErrors :
           (resp.status = 401 /\ RequestAnswered(k, resp)) =>
               /\ ErrorOutcome(last')
               /\ Embeds(Snd(last'.ret).s, <<ClassOpening("401")>>)
               /\ ~Embeds(Snd(last'.ret).s, <<ClassOpening("403")>>)]_vars

\* The result of a getServerInfo that has just returned one.
Info == Fst(last.ret)

\* The step has returned a populated getServerInfo result with a null error.
ReturnsInfo ==
    /\ last'.op = "getServerInfo"
    /\ last'.how = "return"
    /\ Fst(last'.ret).t = "obj"
    /\ Snd(last'.ret) = JNull

ViewAskedFor(viewName) ==
    /\ viewName # NoView
    /\ viewName.s # <<>>
    /\ \E i \in DOMAIN viewName.s : viewName.s[i] \notin {" ", "\t"}
    /\ viewName.s # <<"A", "l", "l">>

\* The percent-encoding of a character of a view name.
PercentEncoded(ch) ==
    CASE ch = " " -> "%20" [] ch = "/" -> "%2F" [] ch = "%" -> "%25"
      [] ch = "&" -> "%26" [] ch = "=" -> "%3D" [] ch = "?" -> "%3F"
      [] ch = "#" -> "%23"
      [] OTHER -> ch

GlobalJobs == <<"/api/json?tree=jobs[name,color,url,buildable,description]">>

\* C14: getJobs on a connected client requests /view/{percent-encoded
\* view}/api/json?tree=jobs[...] when a view is asked for, and the global
\* /api/json?tree=jobs[...] in every other case.
C14_JobsEndpoint ==
    [][\A viewName \in SeqViewNames :
           (IsConnected /\ GetJobsCall(viewName)) =>
               /\ sent'.method = "GET"
               /\ sent'.url =
                      StripTrailingSlash(baseUrl.s) \o
                      (IF ViewAskedFor(viewName)
                       THEN <<"/view/">>
                            \o [i \in DOMAIN viewName.s |-> PercentEncoded(viewName.s[i])]
                            \o GlobalJobs
                       ELSE GlobalJobs)]_vars

\* getJobs has asked for the jobs of the view "q a".
C14_Witness ==
    sent.url = <<"http://jenkins-a", "/view/", "q", "%20", "a">> \o GlobalJobs

\* What the version resolver is to return for each set of headers.
ExpectedVersion(headers) ==
    CASE headers = NoHeaders -> JNull
      [] headers = XJenkins -> JStr(<<"2.401.3">>)
      [] headers = XJenkinsVersion -> JStr(<<"2.401">>)
      [] headers = JenkinsVersion -> JStr(<<"2.400">>)
      [] headers = ServerJetty -> JStr(<<"Jetty(9)">>)
      [] headers = ServerUpperCase -> JStr(<<"Jetty", "/", "9">>)
      [] headers = ServerJenkins -> JStr(<<"2.401.3">>)
      [] headers = ServerJenkinsBeta -> JStr(<<"beta">>)
      [] headers = ServerJenkinsSlash -> JStr(<<>>)
      [] headers = ServerDigitJenkins -> JStr(<<"2Jenkins">>)
      [] headers = ServerJenkinsOnly -> JNull
      [] headers = ServerThenXJenkins -> JStr(<<"2.401.3">>)
      [] headers = BothVersionHeaders -> JStr(<<"2.401">>)
      [] headers = XJenkinsPath -> JStr(<<"2.401">>)
      [] headers = XJenkinsWord -> JStr(<<"Jenkins">>)
      [] headers = XJenkinsEmpty -> JStr(<<"Jetty(9)">>)
      [] headers = ContentTypeOnly -> JNull

\* C15: the version resolver, as getDebugInfo reports it in header_version
\* next to the headers it was given: the headers x-jenkins,
\* x-jenkins-version, jenkins-version, server are tried in that order,
\* whatever their case and their order in the response; the first one with
\* a value decides: the text after the last "/" of a value with "Jenkins"
\* and "/", the first segment starting with a digit of a server value with
\* "Jenkins", the raw value otherwise; none when no header matches.
C15_VersionFromHeaders ==
    (last.op = "getDebugInfo" /\ Snd(last.ret) = JNull) =>
        Prop(Fst(last.ret), "header_version")
            = ExpectedVersion(Prop(Fst(last.ret), "headers").h)

\* The resolver was given a Server header before an X-Jenkins header and
\* has returned the value of X-Jenkins.
C15_Witness ==
    /\ last.op = "getDebugInfo"
    /\ Snd(last.ret) = JNull
    /\ Prop(Fst(last.ret), "headers").h = ServerThenXJenkins
    /\ Prop(Fst(last.ret), "header_version") = JStr(<<"2.401.3">>)

\* The version a document carries, if any.
ExpectedBodyVersion(data) ==
    CASE data = FullBody -> JStr(<<"2.400">>)
      [] data = NoVersionBody -> JNull
      [] data = EmptyVersionBody -> JNull
      [] data = JNull -> JNull

\* The version to report for an answer with the given headers and body.
ExpectedReported(headers, data) ==
    IF ExpectedVersion(headers) \notin {JNull, JStr(<<>>)}
    THEN ExpectedVersion(headers).s
    ELSE IF ExpectedBodyVersion(data) # JNull THEN ExpectedBodyVersion(data).s
    ELSE <<"Unknown">>

\* The answers that carry a document, or at least a version in the headers.
VersionAnswers ==
    VersionResponses \cup {r \in OkResponses : r.data = FullBody \/ r.headers = XJenkins}

\* C16: connect, testConnection and getServerInfo report the version the
\* headers resolve to, else the version of the body when it has a
\* non-empty one, else "Unknown"; a connect that succeeds returns
\* [true, message] and the message carries that version.
C16_ReportedVersion ==
    [][/\ \A k \in InFlightCalls, resp \in VersionAnswers :
              ConnectProbeDone(k, resp) =>
                  last'.ret = Pair(JTrue,
                                   JStr(<<"Connected successfully to Jenkins v">>
                                        \o ExpectedReported(resp.headers, resp.data)))
       /\ \A k \in InFlightCalls, resp \in Responses \cup UserResponses :
              (/\ TestConnectionUserDone(k, resp)
               /\ Fst(last'.ret) = JTrue) =>
                  /\ LET msg == Snd(last'.ret).s
                         version == ExpectedReported(k.headers, k.data)
                     IN SubSeq(msg, Len(msg) - Len(version), Len(msg))
                            = <<"' to Jenkins v">> \o version
       /\ (last'.op = "getServerInfo" /\ Snd(last'.ret) = JNull) =>
              /\ Prop(Fst(last'.ret), "version").s
                     = ExpectedReported(Prop(Fst(last'.ret), "headers").h,
                                        Prop(Fst(last'.ret), "server_data"))]_vars

\* A connect has succeeded against an answer without any version.
C16_Witness ==
    /\ last.op = "connect"
    /\ last.ret = Pair(JTrue, JStr(<<"Connected successfully to Jenkins v", "Unknown">>))
    /\ IsConnected

\* The sample of each value of the documents DebugBody(n): the value as
\* a string, cut to 100 characters.
ExpectedSample(i) ==
    CASE i \in {1, 2, 3} -> JStr([c \in 1..100 |-> "x"])
      [] i = 4 -> JStr(<<"7">>)
      [] i = 5 -> JStr(<<"null">>)
      [] i = 6 -> JStr(<<"x", ",", "y">>)
      [] i = 7 -> JStr(<<"[object Object]">>)
      [] i = 8 -> JStr(<<"true">>)
      [] OTHER -> JStr(<<"v">>)

\* C17: for a body that is an object of n keys, getDebugInfo returns
\* json_keys with the n keys in the order of the body, and sample_data
\* with the first min(n, 10) of them, each with its value as a string of
\* at most 100 characters.
C17_DebugSample ==
    [][\A k \in InFlightCalls, n \in DebugSizes :
           GetDebugInfoDone(k, Ok(NoHeaders, DebugBody(n))) =>
               LET info == Fst(last'.ret)
                   shown == IF n <= 10 THEN n ELSE 10
               IN /\ Snd(last'.ret) = JNull
                  /\ Prop(info, "json_keys") = JList([i \in 1..n |-> JStr(<<DebugKeys[i]>>)])
                  /\ Prop(info, "sample_data")
                         = JObj([i \in 1..shown |-> <<DebugKeys[i], ExpectedSample(i)>>])]_vars

\* getDebugInfo has returned 15 keys and a sample of 10 of them.
C17_Witness ==
    /\ last.op = "getDebugInfo"
    /\ Snd(last.ret) = JNull
    /\ Len(Prop(Fst(last.ret), "json_keys").l) = 15
    /\ Len(Prop(Fst(last.ret), "sample_data").kv) = 10
    /\ Len(Prop(Prop(Fst(last.ret), "sample_data"), "c").s) = 100

\* The opening of the message testConnection has returned, after its mark.
Opening(l) == Snd(l.ret).s[2]

\* C18: testConnection requests /api/json first. When that request fails
\* it returns [false, "Connection failed: ..."] and sends nothing more;
\* when it succeeds the next request is /me/api/json, and when that one
\* fails (or is refused) testConnection returns [false, "User info
\* failed: ..."]. It returns true only when both have succeeded, with the
\* user's full name, or "Unknown", and the resolved version in the message.
C18_TestConnectionOrder ==
    [][/\ (IsConnected /\ TestConnectionCall) =>
              sent'.url = StripTrailingSlash(baseUrl.s) \o <<"/api/json">>
       /\ \A k \in InFlightCalls, resp \in Responses \cup VersionResponses :
              TestConnectionServerDone(k, resp) =>
                  IF ~resp.ok
                  THEN /\ last'.op = "testConnection"
                       /\ Fst(last'.ret) = JFalse
                       /\ Opening(last') = "Connection failed: "
                       /\ last'.reqs = 1
                       /\ sent' = NoRequest
                  ELSE IF IsConnected
                  THEN /\ sent'.url = StripTrailingSlash(baseUrl.s) \o <<"/me/api/json">>
                       /\ last' = NoCall
                  ELSE /\ last'.op = "testConnection"
                       /\ Fst(last'.ret) = JFalse
                       /\ Opening(last') = "User info failed: "
                       /\ last'.reqs = 1
       /\ \A k \in InFlightCalls, resp \in Responses \cup UserResponses :
              TestConnectionUserDone(k, resp) =>
                  /\ ~resp.ok => /\ Fst(last'.ret) = JFalse
                                 /\ Opening(last') = "User info failed: "
                  /\ Fst(last'.ret) = JTrue =>
                         /\ resp.ok
                         /\ last'.reqs = 2
                         /\ Snd(last'.ret).s =
                                <<CheckMark, "Connected as '",
                                  IF resp.data = NoVersionBody \/ resp.data = FullBody
                                  THEN "Ada" ELSE "Unknown",
                                  "' to Jenkins v">>
                                \o ExpectedReported(k.headers, k.data)]_vars

\* testConnection has succeeded for a user without a full name.
C18_Witness ==
    /\ last.op = "testConnection"
    /\ Fst(last.ret) = JTrue
    /\ last.reqs = 2
    /\ Snd(last.ret).s[3] = "Unknown"

\* The operations behind the guarded routes.
GuardedRouteOps ==
    {"testConnection", "getJobs", "getJobDetail", "getJobConfig", "getServerInfo",
     "getDebugInfo"}

\* The client has returned one of the failures the transport classifies.
ClassifiedFailure(l) ==
    /\ ErrorOutcome(l)
    /\ \E class \in {"401", "403", "404", "network", "timeout"} :
           Embeds(Snd(l.ret).s, <<ClassOpening(class)>>)

\* C19: the response of a guarded route has status 400 only for a request
\* that found the client not connected, status 200 with success false
\* when the client has returned a classified failure, and status 500 only
\* when the handler has caught an exception.
C19_RouteStatusConvention ==
    /\ reply.status = 400 => (last = NoCall /\ sent = NoRequest)
    /\ (last.op \in GuardedRouteOps /\ reply # NoReply) =>
           /\ ClassifiedFailure(last) =>
                  (reply.status = 200 /\ Prop(reply.body, "success") = JFalse)
           /\ reply.status = 500 => last.how = "throw"

\* C20: a list-jobs request with a view in its query string, on a
\* connected client, makes the client request the endpoint of that view;
\* without one (or with "All") it requests the global endpoint.
C20_ViewQueryParameter ==
    [][\A view \in ViewNames :
           (IsConnected /\ RouteJobs(view)) =>
               sent'.url =
                   StripTrailingSlash(baseUrl.s) \o
                   (IF ViewAskedFor(view)
                    THEN <<"/view/">>
                         \o [i \in DOMAIN view.s |-> PercentEncoded(view.s[i])]
                         \o GlobalJobs
                    ELSE GlobalJobs)]_vars

\* The number of requests one invocation of an operation may send.
MaxRequests(op) ==
    CASE op \in {"connect", "getJobs", "getJobDetail", "getJobConfig", "updateJobConfig",
                 "getDebugInfo"} -> 1
      [] op = "testConnection" -> 2
      [] op = "getServerInfo" -> 3
      [] OTHER -> 0

\* The failures of a request.
FailedResponses == StatusErrors \cup TransportErrors

\* What the HTTP library itself says of a failure, and what the transport
\* primitive makes of it.
RawOrClassified(l, resp) ==
    IF l.op \in {"getJobConfig", "updateJobConfig"}
    THEN Embeds(Snd(l.ret).s, resp.message)
    ELSE \E class \in FailureClasses :
             /\ FailureClass(resp) = class
             /\ Embeds(Snd(l.ret).s, <<ClassOpening(class)>>)

\* C21: no call, in flight or returned, has sent more requests than its
\* operation has (1 for connect, getJobs, getJobDetail, getJobConfig,
\* updateJobConfig and getDebugInfo, 2 for testConnection, 3 for
\* getServerInfo); a step sends a request only as the next one of its
\* operation, never after a failure that ends it; and the failure of the
\* request an operation depends on is returned as its error, the failure
\* of a sub-request of getServerInfo as the placeholder "Unknown".
C21_AtMostOnce ==
    [][/\ last'.reqs <= MaxRequests(last'.op)
       /\ \A c \in BagToSet(calls') : c.reqs <= MaxRequests(c.op)
       /\ \A k \in InFlightCalls, resp \in FailedResponses :
              /\ RequestAnswered(k, resp) =>
                     /\ sent' = NoRequest
                     /\ last'.op = k.op
                     /\ last'.reqs = k.reqs
                     /\ ErrorOutcome(last')
                     /\ RawOrClassified(last', resp)
              /\ GetServerInfoUserDone(k, resp) =>
                     \/ /\ IsConnected
                        /\ [k EXCEPT !.pc = "plugins", !.reqs = k.reqs + 1,
                                      !.userInfo = Unknown, !.userId = Unknown]
                               \in BagToSet(calls')
                        /\ sent'.url = StripTrailingSlash(baseUrl.s) \o PluginManager
                     \/ /\ last'.op = "getServerInfo"
                        /\ last'.reqs = k.reqs
                        /\ sent' = NoRequest
                        /\ k.data.t = "obj" =>
                               Prop(Fst(last'.ret), "user_info") = Unknown
              /\ GetServerInfoPluginsDone(k, resp) =>
                     /\ sent' = NoRequest
                     /\ last'.reqs = k.reqs
                     /\ k.data.t = "obj" =>
                            Prop(Fst(last'.ret), "plugin_count") = Unknown]_vars

\* getJobs has returned the failure of its one request, and getServerInfo
\* is at its third request.
C21_Witness ==
    /\ last.op = "getJobs"
    /\ last.reqs = 1
    /\ ErrorOutcome(last)
    /\ Embeds(Snd(last.ret).s, <<ClassOpening("403")>>)
    /\ \E c \in InFlightCalls : c.op = "getServerInfo" /\ c.reqs = 3

\* The returned pair carries the not-connected error.
NotConnectedOutcome(l) ==
    /\ l.ret.t = "list"
    /\ Snd(l.ret).t = "str"
    /\ Embeds(Snd(l.ret).s, NotConnectedError)

\* C22: when the session has been cleared while the first request of a
\* testConnection that was started on a connected session is in flight,
\* and Jenkins answers that request, testConnection returns [false,
\* message] with the not-connected error and sends no second request; and
\* a read that was started connected returns that error only so (it is a
\* testConnection, and the session is gone when it returns).
C22_DisconnectRacesRead ==
    [][/\ \A k \in InFlightCalls, resp \in OkResponses \cup VersionResponses :
              (k.conn /\ ~IsConnected /\ TestConnectionServerDone(k, resp)) =>
                  /\ last'.op = "testConnection"
                  /\ last'.reqs = 1
                  /\ Fst(last'.ret) = JFalse
                  /\ NotConnectedOutcome(last')
                  /\ sent' = NoRequest
       /\ (last'.op \in GuardedOps /\ last'.conn /\ NotConnectedOutcome(last')) =>
              /\ last'.op = "testConnection"
              /\ ~IsConnected']_vars

\* A testConnection that was started on a connected session has returned
\* the not-connected error after its first request.
C22_Witness ==
    /\ last.op = "testConnection"
    /\ last.conn
    /\ last.reqs = 1
    /\ Fst(last.ret) = JFalse
    /\ NotConnectedOutcome(last)
    /\ ~IsConnected

\* C23: a PUT of the edited XML to /api/jobs/J/config on a connected
\* client makes the client send one POST of that XML to /job/J/config.xml
\* of the Jenkins server, with content type application/xml and the
\* credentials of the session.
C23_PipelineUpdateReachesJenkins ==
    [][\A jobName \in JobNames, configXml \in ConfigXmls :
           (IsConnected /\ RoutePutJobConfig(jobName, configXml)) =>
               /\ sent'.method = "POST"
               /\ sent'.url =
                      StripTrailingSlash(baseUrl.s) \o <<"/job/", jobName, "/config.xml">>
               /\ sent'.body = JStr(<<configXml>>)
               /\ Prop(sent'.headers, "Content-Type") = JStr(<<"application/xml">>)
               /\ Prop(sent'.headers, "Authorization") = Prop(authHeader, "Authorization")
               /\ reply'.status # 404]_vars

\* The probe of a connect call is in flight.
ConnectInFlight == \E k \in InFlightCalls : k.op = "connect"

\* C24, as stated: while the probe of a connect call is in flight,
\* isConnected() is true.
C24_ConnectedUntilProbeCompletes == ConnectInFlight => IsConnected

\* C24, amended: the step in which connect is called leaves isConnected()
\* true with the probe in flight and no answer sent; while that lasts, the
\* connection-status route reports connected and the guarded routes call
\* the client; a connect that returns success leaves the session as it
\* is; and isConnected() turns false only by a disconnect or by a connect
\* that returns failure.
C24_TentativelyConnected ==
    [][/\ \A i \in ConnectInputs :
              RouteConnect(i.url, i.username, i.password) =>
                  /\ IsConnected'
                  /\ \E c \in BagToSet(calls') : c.op = "connect" /\ c.pc = "probe"
                  /\ last' = NoCall
                  /\ reply' = NoReply
       /\ (ConnectInFlight /\ IsConnected) =>
              /\ RouteConnectionStatus => Prop(reply'.body, "connected") = JTrue
              /\ (RouteTestConnection \/ RouteServerInfo \/ RouteDebugInfo
                  \/ (\E view \in ViewNames : RouteJobs(view))
                  \/ (\E jobName \in JobNames : RouteJobDetail(jobName))
                  \/ (\E jobName \in JobNames : RouteJobConfig(jobName))) =>
                     /\ reply' # NotConnectedReply
                     /\ sent'.method = "GET"
       /\ \A k \in InFlightCalls, resp \in Responses :
              (ConnectProbeDone(k, resp) /\ Fst(last'.ret) = JTrue) =>
                  UNCHANGED sessionVars
       /\ (IsConnected /\ ~IsConnected') =>
              \/ RouteDisconnect
              \/ \E k \in InFlightCalls, resp \in Responses :
                     ConnectProbeDone(k, resp) /\ Fst(last'.ret) = JFalse]_vars

\* The connection-status route has reported connected while the probe of
\* a connect is in flight.
C24_Witness ==
    /\ ConnectInFlight
    /\ IsConnected
    /\ last.op = "isConnected"
    /\ Prop(reply.body, "connected") = JTrue

\* The session holds the base URL and the credentials of the arguments a.
SessionOf(a) ==
    /\ session = JTrue
    /\ baseUrl = JStr(a.url)
    /\ authHeader =
           JObj(<< <<"Authorization",
                     JStr(<<"Basic ", "base64[", a.username, ":", a.password, "]">>)>> >>)

\* C25: when a connect call has returned [true, message], isConnected()
\* is true and the session holds the base URL and the credentials that
\* were passed to that call.
C25_SuccessMeansConnected ==
    (last.op = "connect" /\ Fst(last.ret) = JTrue) =>
        /\ IsConnected
        /\ SessionOf(last.args)

\* C26: when a connect call has just returned success and the session is
\* the one it installed, another connect call, made with other arguments,
\* whose probe then fails leaves that session as it is.
C26_FailedConnectSparesOtherSession ==
    [][\A k \in InFlightCalls, resp \in FailedResponses :
           (/\ last.op = "connect"
            /\ Fst(last.ret) = JTrue
            /\ SessionOf(last.args)
            /\ k.args # last.args
            /\ ConnectProbeDone(k, resp)) =>
               UNCHANGED sessionVars]_vars

\* The request req goes to the base URL of the arguments a with the
\* credentials of a.
RequestOf(req, a) ==
    /\ req.url # <<>>
    /\ req.url[1] = a.url[1]
    /\ req.headers.t = "obj"
    /\ Prop(req.headers, "Authorization") =
           JStr(<<"Basic ", "base64[", a.username, ":", a.password, "]">>)

\* C27: every request sent to Jenkins goes to the base URL of one connect
\* call with the credentials of that same call, and the session, when
\* connected, holds the base URL and the credentials of one connect call.
C27_UrlAndCredentialsOfOneConnect ==
    /\ sent # NoRequest => \E a \in ConnectInputs : RequestOf(sent, a)
    /\ IsConnected => \E a \in ConnectInputs : SessionOf(a)

\* updateJobConfig has sent its request on the session of one connect
\* while the probe of a connect with other arguments is in flight.
C27_Witness ==
    /\ sent.method = "POST"
    /\ \E a \in ConnectInputs : RequestOf(sent, a) /\ SessionOf(a)
    /\ \E k \in InFlightCalls : k.op = "connect" /\ ~SessionOf(k.args)

JobDetailFound ==
    [status |-> 200, body |-> JObj(<< <<"success", JTrue>>, <<"data", FullBody>> >>)]

\* C29: when the job-config route has reported a failure of getJobConfig
\* and the job-detail route has answered with the job, the UI shows the
\* job detail, without configXml, and no error.
C29_ConfigIsOptional ==
    (/\ last.op = "getJobConfig"
     /\ reply # NoReply
     /\ Prop(reply.body, "success") = JFalse) =>
        \A first \in {"job", "config"} :
            LET ui == HandleGetJobDetails(JobDetailFound, reply, first)
            IN /\ ui.error = JStr(<<>>)
               /\ ui.results = FullBody
               /\ Prop(ui.results, "configXml") = JUndef

\* C30: when the root info request is answered with a body that is not
\* an object, getDebugInfo returns a result with an empty json_keys list
\* and an empty sample_data, and a null error.
C30_DebugInfoOfNonObject ==
    [][\A k \in InFlightCalls, resp \in OkResponses :
           (resp.data.t \notin {"obj", "list"} /\ GetDebugInfoDone(k, resp)) =>
               /\ last'.op = "getDebugInfo"
               /\ last'.how = "return"
               /\ Snd(last'.ret) = JNull
               /\ Fst(last'.ret).t = "obj"
               /\ Prop(Fst(last'.ret), "json_keys") = JList(<<>>)
               /\ Prop(Fst(last'.ret), "sample_data") = JObj(<<>>)]_vars

====
